---- MODULE Spec2Model ----
(***************************************************************************)
(* GST Reporter (src/app.py): a Streamlit script over two SQLite tables.   *)
(*                                                                         *)
(* Every interaction re-runs the script top to bottom in its own session,  *)
(* on a connection of its own.  A script run touches the shared database   *)
(* in separately committed statements, and st.rerun() ends a run and       *)
(* starts another; sessions interleave between those statements.  An       *)
(* action of the model is a script run up to and including one statement   *)
(* on the shared tables: a run with one such statement is one action, a    *)
(* run with more (Save, Clear My History) or a run followed by st.rerun()  *)
(* (Login, Logout, Clear My History) continues in further actions, which   *)
(* pc sequences within the session.                                        *)
(*                                                                         *)
(* No run closes its connection.  A run that ends inside a write           *)
(* transaction (the INSERT of a duplicate registration fails after the     *)
(* implicit BEGIN) leaves the connection holding the database's write      *)
(* lock until the garbage collector finalises it; until then the INSERT    *)
(* or DELETE of every other connection raises "database is locked".        *)
(*                                                                         *)
(* Numbers.  A value is a record [k, v]: k is the run-time type the code   *)
(* holds ("float64", "int64", "nan" for a float NaN, "text" for a          *)
(* non-numeric string, "commastr" for a numeric string with thousands      *)
(* separators, "blob" for an SQLite BLOB, "object" for a pandas result     *)
(* that is not a number) and v the numeric value.  All numeric inputs are  *)
(* whole numbers chosen so that every double-precision operation of the    *)
(* code is exact on them (amount * rate / 100 is a whole number).          *)
(***************************************************************************)
EXTENDS Integers, Sequences, FiniteSets, TLC

VARIABLES
    users,      \* users table: username -> stored password hash
    reports,    \* reports table: sequence of rows in rowid order
    seq,        \* sqlite_sequence entry of reports (AUTOINCREMENT)
    db_lock,    \* an unclosed connection holds the database's write lock
    logged_in,  \* st.session_state.logged_in, per session
    user,       \* st.session_state.user, per session
    pc,         \* where the session's script run stands, per session
    page,       \* what the session's script run has rendered, per session
    msg,        \* the most recent status call (st.success/error/warning/info)
    ledger,     \* history variable: per user, the saves since the last clear
    issued,     \* history variable: every report id ever inserted
    aggDf,      \* aggregator harness: the uploaded table
    aggRate,    \* aggregator harness: the selected rate
    aggOut      \* aggregator harness: the result of processing

vars == <<users, reports, seq, db_lock, logged_in, user, pc, page, msg,
          ledger, issued, aggDf, aggRate, aggOut>>

sysVars == <<users, reports, seq, db_lock, logged_in, user, pc, page, msg,
             ledger, issued>>

aggVars == <<aggDf, aggRate, aggOut>>

-----------------------------------------------------------------------------
(* Values *)

Float(n) == [k |-> "float64", v |-> n]

Int64(n) == [k |-> "int64", v |-> n]

NaN == [k |-> "nan", v |-> 0]

Text == [k |-> "text", v |-> 0]

CommaStr(n) == [k |-> "commastr", v |-> n]

Blob(n) == [k |-> "blob", v |-> n]

NotANumber == [k |-> "object", v |-> 0]

\* The cell of a column that the result does not have.
Dropped == [k |-> "dropped", v |-> 0]

IsNumber(x) == x.k \in {"float64", "int64"}

IsNaN(x) == x.k = "nan"

\* Python/SQL numeric equality: 18 == 18.0, a NaN or a non-number equals nothing.
SameNumber(x, y) == IsNumber(x) /\ IsNumber(y) /\ x.v = y.v

RECURSIVE SumSeq(_)
SumSeq(s) == IF s = <<>> THEN 0 ELSE Head(s) + SumSeq(Tail(s))

\* The subsequence of s at the positions in I, in order.
SelectAt(s, I) ==
    LET F[i \in 0..Len(s)] ==
            IF i = 0 THEN <<>>
            ELSE IF i \in I THEN Append(F[i - 1], s[i]) ELSE F[i - 1]
    IN F[Len(s)]

Reverse(s) == [i \in 1..Len(s) |-> s[Len(s) + 1 - i]]

-----------------------------------------------------------------------------
(* Tax aggregation: the script's file-processing block *)

\* st.selectbox("GST Rate (%)", [5, 12, 18, 28]); the first option is the default.
RateOptions == <<5, 12, 18, 28>>

Rates == {RateOptions[i] : i \in 1..Len(RateOptions)}

DefaultRate == RateOptions[1]

ColumnNames == {"Amount", "amount", "GST", "gst", "Tax", "TAX", "Notes"}

\* str.lower() on the column names the model uses.
Lower(c) ==
    CASE c \in {"GST", "gst"} -> "gst"
      [] c \in {"Tax", "TAX"} -> "tax"
      [] c \in {"Amount", "amount"} -> "amount"
      [] OTHER -> "notes"

\* "Amount" not in df.columns: exact, case-sensitive.
HasAmount(df) == \E i \in 1..Len(df.cols) : df.cols[i] = "Amount"

AmountIdx(df) == CHOOSE i \in 1..Len(df.cols) : df.cols[i] = "Amount"

\* df["Amount"].astype(str).str.replace(",", "").astype(float), one cell:
\* a missing cell becomes the string "nan" and parses to NaN; thousands
\* separators are stripped; any other text raises ValueError.
AmountParses(c) == c.k # "text"

ParseAmount(c) == IF c.k = "nan" THEN NaN ELSE Float(c.v)

\* A variant of GstCols that lists the matching columns last to first.
GstColsLast(df) ==
    Reverse(SelectAt([i \in 1..Len(df.cols) |-> i],
                     {i \in 1..Len(df.cols) : Lower(df.cols[i]) \in {"gst", "tax"}}))

\* gst_cols = [c for c in df.columns if c.lower() in ["gst", "tax"]], as the
\* ascending sequence of matching column positions.
GstCols(df) ==
    SelectAt([i \in 1..Len(df.cols) |-> i],
             {i \in 1..Len(df.cols) : Lower(df.cols[i]) \in {"gst", "tax"}})

\* pd.to_numeric(..., errors="coerce"), one cell: anything unparsable,
\* a comma-separated number included, becomes NaN.
ToNumeric(c) == IF IsNumber(c) THEN c ELSE NaN

\* The dtype of to_numeric(col).fillna(0): int64 only when every cell is an
\* integer; one float or one coerced NaN makes the column float64.
NumericDtype(cells) ==
    IF \A i \in 1..Len(cells) : cells[i].k = "int64" THEN "int64" ELSE "float64"

\* .fillna(0) within a column of the given dtype.
FillNa0(x, dtype) == [k |-> dtype, v |-> IF IsNaN(x) THEN 0 ELSE x.v]

\* df["Amount"] * rate / 100, one cell.
TimesRate(a, r) == IF IsNaN(a) THEN NaN ELSE Float((a.v * r) \div 100)

\* df["Amount"] + df["GST"], one cell: float64, NaN when either side is.
AddCells(a, g) == IF IsNaN(a) \/ IsNaN(g) THEN NaN ELSE Float(a.v + g.v)

\* Series.sum(): skipna=True leaves NaN cells out; the result has the
\* column's dtype (numpy.float64 or numpy.int64).
ColumnSum(cells, dtype) ==
    [k |-> dtype,
     v |-> SumSeq([i \in 1..Len(cells) |-> IF IsNaN(cells[i]) THEN 0 ELSE cells[i].v])]

Failed(status) ==
    [status |-> status, amount |-> <<>>, gst |-> <<>>, total |-> <<>>,
     ta |-> NaN, tg |-> NaN, gt |-> NaN]

\* The "if uploaded:" block up to the three totals.
ProcessUpload(df, r) ==
    IF ~HasAmount(df) THEN Failed("MissingColumn")
    ELSE LET n == Len(df.rows)
             ai == AmountIdx(df)
         IN IF \E i \in 1..n : ~AmountParses(df.rows[i][ai]) THEN Failed("ValueError")
            ELSE LET amount == [i \in 1..n |-> ParseAmount(df.rows[i][ai])]
                     gc == GstCols(df)
                     raw == [i \in 1..n |-> ToNumeric(df.rows[i][gc[1]])]
                     gdtype == IF gc # <<>> THEN NumericDtype(raw) ELSE "float64"
                     gst == IF gc # <<>>
                            THEN [i \in 1..n |-> FillNa0(raw[i], gdtype)]
                            ELSE [i \in 1..n |-> TimesRate(amount[i], r)]
                     total == [i \in 1..n |-> AddCells(amount[i], gst[i])]
                 IN [status |-> "ok", amount |-> amount, gst |-> gst, total |-> total,
                     ta |-> ColumnSum(amount, "float64"),
                     tg |-> ColumnSum(gst, gdtype),
                     gt |-> ColumnSum(total, "float64")]

-----------------------------------------------------------------------------
(* Inputs of the system specification *)

Sessions == {"s1", "s2"}

Usernames == {"alice", "bob"}

Passwords == {"pw1", "pw2"}

\* What can be typed into a text_input: a name or nothing.
UserInputs == Usernames \cup {""}

PwdInputs == Passwords \cup {""}

\* What is typed into the Register tab: every username, with two passwords
\* for the first and one for the second, and each field left empty once.
RegisterInputs ==
    {<<"alice", "pw1">>, <<"alice", "pw2">>, <<"bob", "pw1">>, <<"", "pw1">>, <<"bob", "">>}

\* st.session_state.user = None
NoUser == "<None>"

\* uploaded = None
NoFile == [cols |-> <<>>, rows |-> <<>>]

\* An Amount-only sheet (GST comes from the selected rate), a sheet whose GST
\* column holds whole numbers, and a sheet without an "Amount" column.
RateSheet == [cols |-> <<"Amount">>, rows |-> <<<<Float(100)>>, <<CommaStr(1000)>>>>]

IntGstSheet == [cols |-> <<"Amount", "GST">>, rows |-> <<<<Float(100), Int64(18)>>>>]

BadSheet == [cols |-> <<"amount", "GST">>, rows |-> <<<<Float(100), Float(18)>>>>]

Sheets == {RateSheet, IntGstSheet, BadSheet}

\* The rate picked in the system specification (all of Rates in SpecAgg).
SysRates == {18}

\* Saves per behaviour.
MaxSaves == 2

\* What datetime.now() can return when a report is saved, to the calendar
\* month: the wall clock is an input of the run.
Months == {[y |-> 2025, m |-> 12], [y |-> 2026, m |-> 1]}

-----------------------------------------------------------------------------
(* Report store *)

\* datetime.now().strftime("%Y-%m-%d %H:%M"), to the month: the digits of
\* "YYYY-MM" (the order of the strings is the order of these numbers).
Strftime(c) == c.y * 100 + c.m

\* pd.to_datetime(date).dt.to_period("M")
ToPeriod(d) == [y |-> d \div 100, m |-> d % 100]

\* The order of monthly periods (pandas' Period ordinal).
PeriodOrdinal(p) == p.y * 12 + (p.m - 1)

\* sqlite3 parameter binding of a total: a numpy.float64 is a Python float
\* and is bound as a REAL; a numpy.int64 is no Python int but exports the
\* buffer protocol, so it is bound as a BLOB of its eight bytes, which the
\* REAL column stores unconverted.
Bind(x) == IF x.k = "float64" THEN Float(x.v) ELSE Blob(x.v)

\* INTEGER PRIMARY KEY AUTOINCREMENT: one more than the largest rowid the
\* table has ever held.
NextRowId == seq + 1

\* INSERT INTO reports(username,date,total_amount,total_gst,grand_total)
InsertReport(u, d, ta, tg, gt) ==
    Append(reports, [id |-> NextRowId, username |-> u, date |-> d,
                     total_amount |-> Bind(ta), total_gst |-> Bind(tg),
                     grand_total |-> Bind(gt)])

\* The history query without its WHERE clause.
HistRowsAllUsers(tbl, u) == Reverse(tbl)

\* The rows the history query reads: WHERE username=? ORDER BY id DESC.
HistRows(tbl, u) == Reverse(SelectAt(tbl, {i \in 1..Len(tbl) : tbl[i].username = u}))

\* SELECT date,total_amount,total_gst,grand_total of those rows.
Hist(tbl, u) ==
    LET rows == HistRows(tbl, u)
    IN [i \in 1..Len(rows) |->
           [date |-> rows[i].date, total_amount |-> rows[i].total_amount,
            total_gst |-> rows[i].total_gst, grand_total |-> rows[i].grand_total]]

\* DELETE FROM reports WHERE username=?
DeleteReports(tbl, u) == SelectAt(tbl, {i \in 1..Len(tbl) : tbl[i].username # u})

\* The pandas releases the script runs on differ in the rollup of a column
\* of dtype object: before 2.0 the default numeric_only leaves the column out
\* of the result; from 2.0 on the column is summed with Python's +, which
\* raises TypeError on a float and a bytes.
PandasBuilds == {"pandas1", "pandas2"}

TotalColumns == {"total_amount", "total_gst", "grand_total"}

\* A column read from the table is of dtype object when a cell is a BLOB.
IsObjectColumn(hist, f) == \E i \in 1..Len(hist) : hist[i][f].k = "blob"

RECURSIVE SortPeriods(_)
SortPeriods(ps) ==
    IF ps = {} THEN <<>>
    ELSE LET lo == CHOOSE p \in ps : \A q \in ps : PeriodOrdinal(p) <= PeriodOrdinal(q)
         IN <<lo>> \o SortPeriods(ps \ {lo})

\* The group keys of hist.groupby(hist["date"].dt.to_period("M")), ascending.
MonthKeys(hist) == SortPeriods({ToPeriod(hist[i].date) : i \in 1..Len(hist)})

\* The cells of column f in the group of period p.
MonthGroup(hist, p, f) ==
    LET g == SelectAt(hist, {i \in 1..Len(hist) : ToPeriod(hist[i].date) = p})
    IN [i \in 1..Len(g) |-> g[i][f]]

\* Adding up a group that holds a float and a bytes raises TypeError.
SumRaises(vals) ==
    /\ \E i \in 1..Len(vals) : vals[i].k = "blob"
    /\ \E i \in 1..Len(vals) : vals[i].k = "float64"

\* Whether the rollup (lines 362-367) raises, ending the script run there.
MonthlyRaises(hist, b) ==
    /\ b = "pandas2"
    /\ \E f \in TotalColumns, j \in 1..Len(MonthKeys(hist)) :
           SumRaises(MonthGroup(hist, MonthKeys(hist)[j], f))

\* sum() of one column within one group: the sum of the floats; a group of
\* BLOBs adds up to the concatenated bytes, which is no number.
GroupSum(vals) ==
    IF \A i \in 1..Len(vals) : vals[i].k = "float64"
    THEN Float(SumSeq([i \in 1..Len(vals) |-> vals[i].v]))
    ELSE NotANumber

\* One cell of the rollup.
MonthlyCell(hist, p, f, b) ==
    IF b = "pandas1" /\ IsObjectColumn(hist, f) THEN Dropped
    ELSE GroupSum(MonthGroup(hist, p, f))

\* hist.groupby(hist["date"].dt.to_period("M"))[[...]].sum().reset_index()
\* where it does not raise: one row per period, periods ascending.
Monthly(hist, b) ==
    LET keys == MonthKeys(hist)
    IN [j \in 1..Len(keys) |->
           [date |-> keys[j],
            total_amount |-> MonthlyCell(hist, keys[j], "total_amount", b),
            total_gst |-> MonthlyCell(hist, keys[j], "total_gst", b),
            grand_total |-> MonthlyCell(hist, keys[j], "grand_total", b)]]

-----------------------------------------------------------------------------
(* Credential store and session gate *)

\* hashlib.sha256(password.encode()).hexdigest(): deterministic and, on the
\* model's passwords, injective; the digest is never the plaintext.
hash_password(p) == <<"sha256", p>>

Registered == DOMAIN users

\* A lookup by username alone.
CredentialRowAnyPassword(u, p) == u \in Registered

\* SELECT * FROM users WHERE username=? AND password=?  ... fetchone()
CredentialRow(u, p) == u \in Registered /\ users[u] = hash_password(p)

\* INSERT INTO users(username,password) VALUES(?,?) under username UNIQUE:
\* the table after the statement (unchanged when the insert is rejected).
InsertUser(u, h) ==
    IF u \in Registered THEN users
    ELSE [x \in Registered \cup {u} |-> IF x = u THEN h ELSE users[x]]

\* A script without the st.stop() that ends the auth page.
GateOpenAlways(li) == TRUE

\* "if not st.session_state.logged_in: ... st.stop()": whether a script run
\* gets past the auth page.
GateOpen(li) == li

\* Whether the run reaches the rate selector with this upload.
RateShown(df) ==
    df # NoFile /\ ProcessUpload(df, DefaultRate).status = "ok" /\ GstCols(df) = <<>>

\* Whether the run reaches the History section: it does not when the upload
\* has no "Amount" column (st.stop()) or an Amount cell does not parse.
HistoryShown(df) == df = NoFile \/ ProcessUpload(df, DefaultRate).status = "ok"

\* The uploader's values with which a run reaches the History section.
OkFiles == {df \in Sheets \cup {NoFile} : HistoryShown(df)}

\* st.success(f"Logged in as: {st.session_state.user}") in the sidebar.
LoggedInAs(u) == "Logged in as: " \o u

\* The History section (lines 344-390) over the table as it is now: the page
\* it leaves and the status calls it makes.  The "Clear My History" button
\* comes after the monthly rollup and is rendered only when that returns.
HistorySection(tbl, u, b) ==
    LET hist == Hist(tbl, u)
    IN IF hist = <<>> THEN [page |-> "main", said |-> <<"No saved reports yet">>]
       ELSE IF MonthlyRaises(hist, b) THEN [page |-> "exception", said |-> <<>>]
       ELSE [page |-> "history", said |-> <<>>]

\* A script run in which no button is pressed, top to bottom: the auth page;
\* or the main page, which ends at a file without "Amount" (st.stop()), at an
\* Amount cell that does not parse (ValueError), or in the History section.
ScriptRun(li, df, tbl, u, b) ==
    IF ~GateOpen(li) THEN [page |-> "auth", said |-> <<>>]
    ELSE IF df # NoFile /\ ~HasAmount(df)
    THEN [page |-> "main", said |-> <<LoggedInAs(u), "File must contain 'Amount' column">>]
    ELSE IF ~HistoryShown(df) THEN [page |-> "exception", said |-> <<LoggedInAs(u)>>]
    ELSE LET h == HistorySection(tbl, u, b)
         IN [page |-> h.page, said |-> <<LoggedInAs(u)>> \o h.said]

\* The most recent status call after a run that made the calls in said.
LastSaid(said, prev) == IF said = <<>> THEN prev ELSE said[Len(said)]

\* The Register button on the auth page; the run ends at st.stop().  The
\* bare except answers every exception of the INSERT alike: the UNIQUE
\* violation of a present username, after which the run's connection stays
\* inside its write transaction, and "database is locked".
Register(s, u, p) ==
    /\ pc[s] = "idle"
    /\ ~GateOpen(logged_in[s])
    /\ IF u = "" \/ p = ""
       THEN /\ msg' = "Fill all fields"
            /\ UNCHANGED <<users, db_lock>>
       ELSE IF db_lock
       THEN /\ msg' = "Username already exists"
            /\ UNCHANGED <<users, db_lock>>
       ELSE /\ users' = InsertUser(u, hash_password(p))
            /\ msg' = IF u \in Registered THEN "Username already exists"
                      ELSE "Account created! Now login."
            /\ db_lock' = (u \in Registered)
    /\ page' = [page EXCEPT ![s] = "auth"]
    /\ UNCHANGED <<reports, seq, logged_in, user, pc, ledger, issued, aggVars>>

\* The garbage collector finalises the connection a run left inside its
\* write transaction: the transaction is rolled back and the lock released.
FinalizeConnection ==
    /\ db_lock
    /\ db_lock' = FALSE
    /\ UNCHANGED <<users, reports, seq, logged_in, user, pc, page, msg,
                   ledger, issued, aggVars>>

\* The Login button on the auth page: the credential query and, on a match,
\* the session fields and st.rerun().
Login(s, u, p) ==
    /\ pc[s] = "idle"
    /\ ~GateOpen(logged_in[s])
    /\ IF CredentialRow(u, p)
       THEN /\ logged_in' = [logged_in EXCEPT ![s] = TRUE]
            /\ user' = [user EXCEPT ![s] = u]
            /\ pc' = [pc EXCEPT ![s] = "rerun"]
            /\ UNCHANGED msg
       ELSE /\ msg' = "Wrong credentials"
            /\ UNCHANGED <<logged_in, user, pc>>
    /\ page' = [page EXCEPT ![s] = "auth"]
    /\ UNCHANGED <<users, reports, seq, ledger, issued, db_lock, aggVars>>

\* The script run that st.rerun() starts (after a login, line 128, a logout,
\* line 160, or the DELETE of a clear, line 387): no button is pressed in it;
\* it stops at the auth page or reads the history afresh.
Rerun(s) ==
    /\ pc[s] = "rerun"
    /\ \E run \in {ScriptRun(logged_in[s], df, reports, user[s], b) :
                        df \in OkFiles, b \in PandasBuilds} :
          /\ page' = [page EXCEPT ![s] = run.page]
          /\ msg' = LastSaid(run.said, msg)
    /\ pc' = [pc EXCEPT ![s] = "idle"]
    /\ UNCHANGED <<users, reports, seq, logged_in, user, ledger, issued, db_lock, aggVars>>

\* The sidebar's Logout button: the run has rendered the sidebar, resets the
\* session fields and ends in st.rerun().
Logout(s) ==
    /\ pc[s] = "idle"
    /\ GateOpen(logged_in[s])
    /\ logged_in' = [logged_in EXCEPT ![s] = FALSE]
    /\ user' = [user EXCEPT ![s] = NoUser]
    /\ pc' = [pc EXCEPT ![s] = "rerun"]
    /\ page' = [page EXCEPT ![s] = "sidebar"]
    /\ msg' = LoggedInAs(user[s])
    /\ UNCHANGED <<users, reports, seq, ledger, issued, db_lock, aggVars>>

-----------------------------------------------------------------------------
(* Main page handlers.  The uploader's file and the selected rate are widget
   values handed to every run of the script: inputs of the handlers. *)

\* A file is put into the uploader; the run processes it and reads the
\* history.
Upload(s, df) ==
    /\ pc[s] = "idle"
    /\ GateOpen(logged_in[s])
    /\ \E run \in {ScriptRun(logged_in[s], df, reports, user[s], b) : b \in PandasBuilds} :
          /\ page' = [page EXCEPT ![s] = run.page]
          /\ msg' = LastSaid(run.said, msg)
    /\ UNCHANGED <<users, reports, seq, logged_in, user, pc, ledger, issued, db_lock, aggVars>>

\* A rate is picked in the selector, which exists when the file has no
\* GST column; the run recomputes the totals and reads the history.
SelectRate(s, df, r) ==
    /\ pc[s] = "idle"
    /\ GateOpen(logged_in[s])
    /\ RateShown(df)
    /\ \E run \in {ScriptRun(logged_in[s], df, reports, user[s], b) : b \in PandasBuilds} :
          /\ page' = [page EXCEPT ![s] = run.page]
          /\ msg' = LastSaid(run.said, msg)
    /\ UNCHANGED <<users, reports, seq, logged_in, user, pc, ledger, issued, db_lock, aggVars>>

\* The Save button: the run recomputes the totals, inserts them with the
\* date now and commits (lines 316-326); its History section follows in
\* History(s).  While the database is locked the INSERT raises and the run
\* ends there.
Save(s, df, r, now) ==
    /\ pc[s] = "idle"
    /\ GateOpen(logged_in[s])
    /\ ProcessUpload(df, r).status = "ok"
    /\ IF db_lock
       THEN /\ page' = [page EXCEPT ![s] = "exception"]
            /\ msg' = LoggedInAs(user[s])
            /\ UNCHANGED <<reports, seq, ledger, issued, pc>>
       ELSE /\ seq < MaxSaves
            /\ LET out == ProcessUpload(df, r)
               IN /\ reports' = InsertReport(user[s], Strftime(now), out.ta, out.tg, out.gt)
                  /\ seq' = NextRowId
                  /\ ledger' = [ledger EXCEPT ![user[s]] =
                                   Append(@, [id |-> NextRowId, date |-> now,
                                              ta |-> out.ta, tg |-> out.tg, gt |-> out.gt])]
                  /\ issued' = issued \cup {NextRowId}
            /\ msg' = "Saved!"
            /\ page' = [page EXCEPT ![s] = "main"]
            /\ pc' = [pc EXCEPT ![s] = "hist"]
    /\ UNCHANGED <<users, logged_in, user, db_lock, aggVars>>

\* The rest of a Save run: the History section, which reads the table after
\* the commit of the insert.
History(s) ==
    /\ pc[s] = "hist"
    /\ \E h \in {HistorySection(reports, user[s], b) : b \in PandasBuilds} :
          /\ page' = [page EXCEPT ![s] = h.page]
          /\ msg' = LastSaid(h.said, msg)
    /\ pc' = [pc EXCEPT ![s] = "idle"]
    /\ UNCHANGED <<users, reports, seq, logged_in, user, ledger, issued, db_lock, aggVars>>

\* A click on "Clear My History", up to the button (line 381).  The button
\* is on the page of the session's last run; the click's run reads the
\* history again and st.button returns True only if this run renders the
\* button too.  Otherwise the click is lost and the run ends as any other.
ClearHistory(s) ==
    /\ pc[s] = "idle"
    /\ GateOpen(logged_in[s])
    /\ page[s] = "history"
    /\ \E run \in {ScriptRun(logged_in[s], df, reports, user[s], b) :
                        df \in OkFiles, b \in PandasBuilds} :
          /\ page' = [page EXCEPT ![s] = run.page]
          /\ msg' = LastSaid(run.said, msg)
          /\ pc' = [pc EXCEPT ![s] = IF run.page = "history" THEN "delete" ELSE "idle"]
    /\ UNCHANGED <<users, reports, seq, logged_in, user, ledger, issued, db_lock, aggVars>>

\* The body of the button (lines 382-387): the DELETE, its commit, and
\* st.rerun().  While the database is locked the DELETE raises and the run
\* ends there, below the button it has rendered.
DeleteHistory(s) ==
    /\ pc[s] = "delete"
    /\ IF db_lock
       THEN /\ pc' = [pc EXCEPT ![s] = "idle"]
            /\ UNCHANGED <<reports, ledger>>
       ELSE /\ reports' = DeleteReports(reports, user[s])
            /\ ledger' = [ledger EXCEPT ![user[s]] = <<>>]
            /\ pc' = [pc EXCEPT ![s] = "rerun"]
    /\ UNCHANGED <<users, seq, logged_in, user, page, msg, issued, db_lock, aggVars>>

-----------------------------------------------------------------------------
(* The system *)

InitSys ==
    /\ users = [u \in {} |-> hash_password("")]
    /\ reports = <<>>
    /\ seq = 0
    /\ db_lock = FALSE
    /\ logged_in = [s \in Sessions |-> FALSE]
    /\ user = [s \in Sessions |-> NoUser]
    /\ pc = [s \in Sessions |-> "idle"]
    /\ page = [s \in Sessions |-> "auth"]
    /\ msg = ""
    /\ ledger = [u \in Usernames |-> <<>>]
    /\ issued = {}

Init ==
    /\ InitSys
    /\ aggDf = NoFile
    /\ aggRate = DefaultRate
    /\ aggOut = Failed("idle")

Next ==
    \/ \E s \in Sessions, c \in RegisterInputs : Register(s, c[1], c[2])
    \/ FinalizeConnection
    \/ \E s \in Sessions, u \in UserInputs, p \in PwdInputs : Login(s, u, p)
    \/ \E s \in Sessions : Rerun(s)
    \/ \E s \in Sessions : Logout(s)
    \/ \E s \in Sessions, df \in Sheets : Upload(s, df)
    \/ \E s \in Sessions, df \in Sheets, r \in SysRates : SelectRate(s, df, r)
    \/ \E s \in Sessions, df \in Sheets, r \in SysRates, now \in Months : Save(s, df, r, now)
    \/ \E s \in Sessions : History(s)
    \/ \E s \in Sessions : ClearHistory(s)
    \/ \E s \in Sessions : DeleteHistory(s)

Spec == Init /\ [][Next]_vars

-----------------------------------------------------------------------------
(* The aggregator alone, over a wider set of uploads *)

MaxRows == 2

AggLayouts ==
    {<<"Amount">>, <<"Notes", "Amount">>, <<"Amount", "gst">>,
     <<"Amount", "GST", "TAX">>, <<"Tax", "Amount">>, <<"amount", "GST">>}

\* The cells tried in each column.
CellsOf(c) ==
    CASE c = "Amount" -> {Float(100), CommaStr(1000), NaN, Text}
      [] c \in {"gst", "GST", "Tax"} -> {Int64(18), Float(36), NaN, Text, CommaStr(1000)}
      [] c = "TAX" -> {Float(7)}
      [] OTHER -> {Text}

AllCells == UNION {CellsOf(c) : c \in ColumnNames}

RowsOf(L) == {r \in [1..Len(L) -> AllCells] : \A i \in 1..Len(L) : r[i] \in CellsOf(L[i])}

Tables ==
    UNION {{[cols |-> L, rows |-> rs] : rs \in [1..n -> RowsOf(L)]} :
           L \in AggLayouts, n \in 1..MaxRows}

InitAgg ==
    /\ InitSys
    /\ aggDf \in Tables
    /\ aggRate \in IF RateShown(aggDf) THEN Rates ELSE {DefaultRate}
    /\ aggOut = Failed("pending")

Aggregate ==
    /\ aggOut.status = "pending"
    /\ aggOut' = ProcessUpload(aggDf, aggRate)
    /\ UNCHANGED <<sysVars, aggDf, aggRate>>

NextAgg == Aggregate

SpecAgg == InitAgg /\ [][NextAgg]_vars

-----------------------------------------------------------------------------
(* Properties *)

Ids(tbl) == {tbl[i].id : i \in 1..Len(tbl)}

LedgerIds(u) == {ledger[u][i].id : i \in 1..Len(ledger[u])}

OwnedRows(tbl, u) == {tbl[i] : i \in {j \in 1..Len(tbl) : tbl[j].username = u}}

\* C1: per-user isolation of the report store.  In every state the history
\* listed for a user u holds exactly the reports saved under u and not since
\* cleared by u, every listed row being owned by u; and a step changes the
\* rows owned by v only if it is the insert of a save or the delete of a
\* clear-history of a session authenticated as v, so a clear by u leaves
\* every other user's reports as they were.
C1_ListedIsOwnSaves ==
    \A u \in Usernames :
        LET rows == HistRows(reports, u)
        IN /\ Len(rows) = Len(ledger[u])
           /\ {rows[i].id : i \in 1..Len(rows)} = LedgerIds(u)
           /\ \A i \in 1..Len(rows) : rows[i].username = u
           /\ Len(Hist(reports, u)) = Len(rows)

C1_OthersUntouched ==
    \A v \in Usernames :
        OwnedRows(reports', v) # OwnedRows(reports, v) =>
            \E s \in Sessions :
                /\ logged_in[s] /\ user[s] = v
                /\ \/ DeleteHistory(s)
                   \/ \E df \in Sheets, r \in SysRates, now \in Months : Save(s, df, r, now)

\* C1: the listing of every user is exactly that user's own uncleared saves,
\* always, and only the owner's saves and clears change a user's rows.
C1_Isolation == [](C1_ListedIsOwnSaves) /\ [][C1_OthersUntouched]_vars

\* C1 witness: report 2 was saved by one user and cleared by that user while
\* report 1, owned by the other user, is still listed.
C1_Witness ==
    /\ seq = 2 /\ Len(reports) = 1 /\ reports[1].id = 1
    /\ \E u \in Usernames : Len(Hist(reports, u)) = 1

\* C2: save/list round trip.  For every user the listing has one report per
\* save since the last clear, newest first, each with exactly the
\* total_amount, total_gst and grand_total that were saved; nothing saved
\* lists as the empty sequence.
C2_RoundTrip ==
    \A u \in Usernames :
        LET h == Hist(reports, u)
            n == Len(ledger[u])
        IN /\ Len(h) = n
           /\ \A i \in 1..n :
                  LET saved == ledger[u][n + 1 - i]
                  IN /\ SameNumber(h[i].total_amount, saved.ta)
                     /\ SameNumber(h[i].total_gst, saved.tg)
                     /\ SameNumber(h[i].grand_total, saved.gt)

\* C3: registering a username that is already present reports "Username
\* already exists" and changes no stored credential, so the passwords that
\* authenticate are the same before and after; registering a new username
\* with a password succeeds and stores the hash of that password.
C3_RegisterStep ==
    \A s \in Sessions, u \in Usernames, p \in Passwords :
        Register(s, u, p) =>
            IF u \in DOMAIN users
            THEN /\ msg' = "Username already exists"
                 /\ users' = users
                 /\ \A q \in Passwords :
                        (users'[u] = hash_password(q)) <=> (users[u] = hash_password(q))
            ELSE /\ msg' = "Account created! Now login."
                 /\ DOMAIN users' = DOMAIN users \cup {u}
                 /\ users'[u] = hash_password(p)
                 /\ \A x \in DOMAIN users : users'[x] = users[x]

C3_NoOverwrite ==
    \A u \in DOMAIN users : u \in DOMAIN users' /\ users'[u] = users[u]

\* C3: every step keeps every stored credential, and a registration succeeds
\* for a new username and is refused as a duplicate for a present one.
C3_DuplicateUsername == [][C3_RegisterStep /\ C3_NoOverwrite]_vars

\* C4: a login authenticates the session as the typed username exactly when
\* the users table holds that username with the hash of the typed password;
\* otherwise the session stays anonymous.  Hence an authenticated session's
\* user is always a registered username.
C4_LoginStep ==
    \A s \in Sessions, u \in UserInputs, p \in PwdInputs :
        Login(s, u, p) =>
            IF u \in DOMAIN users /\ users[u] = hash_password(p)
            THEN logged_in'[s] /\ user'[s] = u
            ELSE ~logged_in'[s] /\ user'[s] = NoUser /\ msg' = "Wrong credentials"

C4_UserRegistered == \A s \in Sessions : logged_in[s] => user[s] \in DOMAIN users

\* C4: authentication succeeds only on an exact match of username and
\* password hash, and an authenticated user is always registered.
C4_ExactMatch == [](C4_UserRegistered) /\ [][C4_LoginStep]_vars

\* C4 witness: one session is authenticated and a login was just refused
\* although the typed username may well be registered.
C4_Witness ==
    /\ msg = "Wrong credentials"
    /\ \E s \in Sessions : logged_in[s]
    /\ Cardinality(DOMAIN users) = 1

\* C5: the session gate.  A session is anonymous (logged_in false, no user)
\* or authenticated as a username; it becomes authenticated only by a
\* successful login and anonymous only by a logout; the main page is rendered,
\* the history is read and the reports table changes only for an
\* authenticated session, and the run that follows a logout renders the auth
\* page and nothing else.
C5_TwoStates ==
    \A s \in Sessions :
        /\ logged_in[s] <=> user[s] # NoUser
        /\ logged_in[s] => user[s] \in Usernames
        /\ page[s] \in {"main", "history", "exception"} => logged_in[s]
        /\ pc[s] \in {"hist", "delete"} => logged_in[s]
        /\ page[s] = "sidebar" <=> ~logged_in[s] /\ pc[s] = "rerun"

C5_Step ==
    /\ \A s \in Sessions :
          /\ (logged_in'[s] # logged_in[s] \/ user'[s] # user[s]) =>
                \/ /\ ~logged_in[s] /\ logged_in'[s]
                   /\ \E p \in Passwords :
                         /\ Login(s, user'[s], p)
                         /\ users[user'[s]] = hash_password(p)
                \/ /\ logged_in[s] /\ ~logged_in'[s] /\ user'[s] = NoUser
                   /\ Logout(s)
          /\ \/ logged_in[s] /\ user[s] # NoUser
             \/ ~(\/ \E df \in Sheets : Upload(s, df)
                  \/ \E df \in Sheets, r \in SysRates : SelectRate(s, df, r)
                  \/ \E df \in Sheets, r \in SysRates, now \in Months : Save(s, df, r, now)
                  \/ History(s)
                  \/ (Rerun(s) /\ page'[s] # "auth")
                  \/ ClearHistory(s) \/ DeleteHistory(s))
    /\ (reports' # reports \/ seq' # seq) =>
          \E s \in Sessions :
              /\ logged_in[s] /\ user[s] # NoUser
              /\ \/ DeleteHistory(s)
                 \/ \E df \in Sheets, r \in SysRates, now \in Months : Save(s, df, r, now)
    /\ \A i \in 1..Len(reports') : reports'[i].username # NoUser

\* C5: the session is anonymous or authenticated, changes only by login
\* success and logout, and nothing behind the gate runs while anonymous.
C5_SessionGate == [](C5_TwoStates) /\ [][C5_Step]_vars

\* C5 witness: a report was saved and every session has since logged out.
C5_Witness ==
    /\ reports # <<>>
    /\ \A s \in Sessions : ~logged_in[s] /\ page[s] = "auth" /\ pc[s] = "idle"

\* C6: for a processed upload, total_amount is the sum of the rows' amounts,
\* total_gst the sum of the rows' gst values and grand_total equals
\* total_amount + total_gst, whatever the order of the rows.
C6_AggregateTotals ==
    aggOut.status = "ok" =>
        LET n == Len(aggDf.rows)
            num(x) == IF IsNumber(x) THEN x.v ELSE 0
        IN /\ IsNumber(aggOut.ta) /\ IsNumber(aggOut.tg) /\ IsNumber(aggOut.gt)
           /\ aggOut.ta.v = SumSeq([i \in 1..n |-> num(aggOut.amount[i])])
           /\ aggOut.tg.v = SumSeq([i \in 1..n |-> num(aggOut.gst[i])])
           /\ aggOut.gt.v = aggOut.ta.v + aggOut.tg.v
           /\ \A q \in Permutations(1..n) :
                  LET o == ProcessUpload([cols |-> aggDf.cols,
                                          rows |-> [i \in 1..n |-> aggDf.rows[q[i]]]],
                                         aggRate)
                  IN o.ta = aggOut.ta /\ o.tg = aggOut.tg /\ o.gt = aggOut.gt

\* C7: GST source selection.  If a column is named "gst" or "tax" in any
\* letter case, every row's gst is the number in the first such column, 0
\* where that cell is missing or not numeric, whatever the rate; otherwise the
\* rate is one of 5, 12, 18, 28 and every row's gst is amount * rate / 100.
\* Either way every row's total is amount + gst.
C7_GstSource ==
    aggOut.status = "ok" =>
        LET n == Len(aggDf.rows)
            taxlike == {i \in 1..Len(aggDf.cols) :
                           aggDf.cols[i] \in {"gst", "GST", "Tax", "TAX"}}
        IN /\ IF taxlike # {}
              THEN LET c == CHOOSE i \in taxlike : \A j \in taxlike : i <= j
                   IN /\ \A i \in 1..n :
                             LET cell == aggDf.rows[i][c]
                             IN /\ IsNumber(aggOut.gst[i])
                                /\ aggOut.gst[i].v =
                                       IF cell.k \in {"int64", "float64"} THEN cell.v ELSE 0
                      /\ \A r \in {5, 12, 18, 28} :
                             ProcessUpload(aggDf, r).gst = aggOut.gst
              ELSE /\ aggRate \in {5, 12, 18, 28}
                   /\ \A i \in 1..n :
                          IF IsNumber(aggOut.amount[i])
                          THEN /\ IsNumber(aggOut.gst[i])
                               /\ aggOut.gst[i].v * 100 = aggOut.amount[i].v * aggRate
                          ELSE IsNaN(aggOut.gst[i])
           /\ \A i \in 1..n :
                  IF IsNumber(aggOut.amount[i]) /\ IsNumber(aggOut.gst[i])
                  THEN /\ IsNumber(aggOut.total[i])
                       /\ aggOut.total[i].v = aggOut.amount[i].v + aggOut.gst[i].v
                  ELSE IsNaN(aggOut.total[i])

\* C7 witness: two tax-like columns; the first holds a non-numeric cell in
\* row 1 (gst 0) and 18 in row 2, the second holds 7 throughout.
C7_Witness ==
    /\ aggOut.status = "ok"
    /\ aggDf.cols = <<"Amount", "GST", "TAX">>
    /\ Len(aggDf.rows) = 2
    /\ aggDf.rows[1][2] = Text /\ aggOut.gst[1].v = 0
    /\ aggDf.rows[2][2] = Int64(18) /\ aggOut.gst[2].v = 18

\* C8: the monthly rollup of a user's listed reports is computed and has
\* exactly one bucket per calendar month occurring in the list, months
\* ascending, and each bucket's three totals are the sums over exactly the
\* reports of its month.
C8_MonthlyPartition ==
    \A u \in Usernames, b \in PandasBuilds :
        LET h == Hist(reports, u)
            m == Monthly(h, b)
            month(d) == <<d \div 100, d % 100>>
            months == {month(h[i].date) : i \in 1..Len(h)}
            of(j) == {i \in 1..Len(h) : month(h[i].date) = <<m[j].date.y, m[j].date.m>>}
            sum(f, I) == SumSeq([k \in 1..Len(h) |-> IF k \in I THEN h[k][f].v ELSE 0])
        IN /\ ~MonthlyRaises(h, b)
           /\ Len(m) = Cardinality(months)
           /\ {<<m[j].date.y, m[j].date.m>> : j \in 1..Len(m)} = months
           /\ \A j, k \in 1..Len(m) :
                  j < k => \/ m[j].date.y < m[k].date.y
                           \/ m[j].date.y = m[k].date.y /\ m[j].date.m < m[k].date.m
           /\ \A j \in 1..Len(m) :
                  \A f \in {"total_amount", "total_gst", "grand_total"} :
                      IsNumber(m[j][f]) /\ m[j][f].v = sum(f, of(j))

\* C9: the DELETE of a clear-history leaves the clicking user with an empty
\* listing and no row; on a history that is already empty it deletes nothing
\* and leaves the table as it is; a click whose run finds the history empty
\* changes nothing; deleting a user's rows twice is deleting them once.
C9_ClearStep ==
    \A s \in Sessions :
        /\ \/ ~DeleteHistory(s)
           \/ /\ Hist(reports', user[s]) = <<>>
              /\ \A i \in 1..Len(reports') : reports'[i].username # user[s]
              /\ Hist(reports, user[s]) = <<>> => reports' = reports
        /\ \/ ~ClearHistory(s)
           \/ reports' = reports

C9_Idempotent ==
    \A u \in Usernames :
        /\ Hist(DeleteReports(reports, u), u) = <<>>
        /\ DeleteReports(DeleteReports(reports, u), u) = DeleteReports(reports, u)

\* C9: clear-history empties the user's listing and is idempotent.
C9_Clear == [](C9_Idempotent) /\ [][C9_ClearStep]_vars

\* C10: reports are append-only.  A save adds exactly one row, after the
\* existing ones, owned by the saving session's user and with an id greater
\* than every id issued before; a row that stays keeps all its fields; rows
\* disappear only in the DELETE of a clear-history, and only rows of the
\* clicking user; register, login, logout, upload, rate selection and every
\* reading of the history leave the table as it is.
C10_Step ==
    LET old == Ids(reports)
        new == Ids(reports')
    IN /\ \A i \in 1..Len(reports), j \in 1..Len(reports') :
              reports[i].id = reports'[j].id => reports[i] = reports'[j]
       /\ \A s \in Sessions, df \in Sheets, r \in SysRates, now \in Months :
              Save(s, df, r, now) =>
                  /\ Len(reports') = Len(reports) + 1
                  /\ \A i \in 1..Len(reports) : reports'[i] = reports[i]
                  /\ LET row == reports'[Len(reports')]
                     IN /\ row.username = user[s]
                        /\ \A k \in issued \cup old : row.id > k
       /\ new \ old # {} =>
              \E s \in Sessions, df \in Sheets, r \in SysRates, now \in Months : Save(s, df, r, now)
       /\ old \ new # {} =>
              \E s \in Sessions :
                  /\ DeleteHistory(s)
                  /\ \A i \in 1..Len(reports) :
                         reports[i].id \notin new => reports[i].username = user[s]
       /\ \/ reports' = reports
          \/ \A s \in Sessions :
                 ~(\/ Logout(s) \/ Rerun(s) \/ History(s) \/ ClearHistory(s)
                   \/ \E u \in UserInputs, p \in PwdInputs : Register(s, u, p) \/ Login(s, u, p)
                   \/ \E df \in Sheets : Upload(s, df)
                   \/ \E df \in Sheets, r \in SysRates : SelectRate(s, df, r))

\* C10: every step treats the reports table as append-only.
C10_AppendOnly == [][C10_Step]_vars

====
